---- MODULE Spec2Model ----
(***************************************************************************)
(* Model of src/main.py: the upload (ingestion) handler, the record store  *)
(* (tables files / orders / file_parse_logs) and the duplicate analysis    *)
(* analyze_duplicates_for_file.                                            *)
(*                                                                         *)
(* Text is modelled as a sequence of one-character strings, so that        *)
(* lower(), upper(), strip() and split() are computed, not assumed.        *)
(* Cyrillic text of the source is written in Latin transliteration         *)
(* ("itogo" for the header keyword of line 696).                           *)
(***************************************************************************)
EXTENDS Integers, Sequences, FiniteSets, TLC

VARIABLES
    files,      \* table files: the set of committed File.id
    orders,     \* table orders: the set of committed OrderRow rows
    logs,       \* table file_parse_logs: the committed FileParseLog rows
    next_id,    \* the next primary key the files table hands out
    req,        \* the upload requests received so far, one record each
    report,     \* the response of the last analysis request
                \* (api_recalc_file / api_dashboard_all)
    row_in,     \* a header and one spreadsheet row handed to the loop body
    row_out,    \* what the loop body made of row_in
    scan        \* the analysis in flight between its two queries: what its
                \* first query read

vars == <<files, orders, logs, next_id, req, report, row_in, row_out, scan>>

(***************************************************************************)
(* Text                                                                    *)
(***************************************************************************)

\* Python's None for a text column. Every character of a text is a string of
\* length one, so this one-element tuple is no text.
None == <<"None">>

UpperAlpha == <<"A","B","C","D","E","F","G","H","I","J","K","L","M",
                "N","O","P","Q","R","S","T","U","V","W","X","Y","Z">>
LowerAlpha == <<"a","b","c","d","e","f","g","h","i","j","k","l","m",
                "n","o","p","q","r","s","t","u","v","w","x","y","z">>
Digits == {"0","1","2","3","4","5","6","7","8","9"}
Whitespace == {" ", "\t", "\n"}

\* str.lower() / str.upper() on one character, as lookup tables
LowerOf == [c \in {UpperAlpha[i] : i \in 1..Len(UpperAlpha)} |->
               LowerAlpha[CHOOSE i \in 1..Len(UpperAlpha) : UpperAlpha[i] = c]]
UpperOf == [c \in {LowerAlpha[i] : i \in 1..Len(LowerAlpha)} |->
               UpperAlpha[CHOOSE i \in 1..Len(LowerAlpha) : LowerAlpha[i] = c]]

IsUpper(c) == c \in DOMAIN LowerOf
IsLower(c) == c \in DOMAIN UpperOf

ToLower(c) == IF IsUpper(c) THEN LowerOf[c] ELSE c
ToUpper(c) == IF IsLower(c) THEN UpperOf[c] ELSE c

lower(s) == [i \in 1..Len(s) |-> ToLower(s[i])]
upper(s) == [i \in 1..Len(s) |-> ToUpper(s[i])]

\* str.strip(): drop leading and trailing whitespace
strip(s) ==
    LET ink == {i \in 1..Len(s) : s[i] \notin Whitespace}
    IN  IF ink = {} THEN <<>>
        ELSE LET lo == CHOOSE i \in ink : \A j \in ink : i <= j
                 hi == CHOOSE i \in ink : \A j \in ink : j <= i
             IN  SubSeq(s, lo, hi)

\* str.split() with no argument: the maximal runs of non-whitespace, in order
split(s) ==
    LET F[i \in 0..Len(s)] ==
            \* <<words closed so far, the word being read>>
            IF i = 0 THEN <<(<<>>), (<<>>)>>
            ELSE LET prev == F[i-1]
                 IN  IF s[i] \in Whitespace
                     THEN IF prev[2] = <<>> THEN prev
                          ELSE <<Append(prev[1], prev[2]), <<>>>>
                     ELSE <<prev[1], Append(prev[2], s[i])>>
        last == F[Len(s)]
    IN  IF last[2] = <<>> THEN last[1] ELSE Append(last[1], last[2])

\* " ".join(words)
join_space(words) ==
    LET F[i \in 0..Len(words)] ==
            IF i = 0 THEN <<>>
            ELSE IF i = 1 THEN words[1]
            ELSE F[i-1] \o <<" ">> \o words[i]
    IN  F[Len(words)]

\* Python truthiness of an optional text: neither None nor ""
Truthy(t) == t # None /\ t # <<>>

\* normalize_text (lines 195-199)
normalize_text(text) ==
    IF ~Truthy(text) THEN <<>> ELSE join_space(split(strip(lower(text))))


(***************************************************************************)
(* Helpers for Python lists and dicts                                      *)
(***************************************************************************)

\* the elements of s at the positions in keep, in order
SelectIdx(s, keep) ==
    LET F[i \in 0..Len(s)] ==
            IF i = 0 THEN <<>>
            ELSE IF i \in keep THEN Append(F[i-1], s[i]) ELSE F[i-1]
    IN  F[Len(s)]

\* the keys of a dict filled by one pass over ks: each key once, in the
\* order of its first insertion
dict_keys(ks) ==
    SelectIdx(ks, {i \in 1..Len(ks) : \A j \in 1..(i-1) : ks[j] # ks[i]})

\* the concatenation of a sequence of sequences
Concat(ss) ==
    LET F[i \in 0..Len(ss)] == IF i = 0 THEN <<>> ELSE F[i-1] \o ss[i]
    IN  F[Len(ss)]

\* s[:n]
Take(s, n) == IF Len(s) <= n THEN s ELSE SubSeq(s, 1, n)

Range(s) == {s[i] : i \in 1..Len(s)}

(***************************************************************************)
(* Substrings and the regular expressions of the parser (lines 99-193)     *)
(***************************************************************************)

\* s[i..] starts with pat
HasAt(s, i, pat) ==
    /\ i >= 1
    /\ i + Len(pat) - 1 <= Len(s)
    /\ \A k \in 1..Len(pat) : s[i + k - 1] = pat[k]

\* `pat in s`
Contains(s, pat) == \E i \in 1..(Len(s) - Len(pat) + 1) : HasAt(s, i, pat)

\* s.startswith(pat)
StartsWith(s, pat) == HasAt(s, 1, pat)

\* the last position of the longest run of characters of S that starts at
\* position i (i - 1 when s[i] is not in S): a greedy S* from i
RunEnd(s, i, S) ==
    LET stops == {j \in i..Len(s) : s[j] \notin S}
    IN  IF stops = {} THEN Len(s)
        ELSE (CHOOSE j \in stops : \A k \in stops : j <= k) - 1

\* a faulty variant: the pattern is matched at any position, inside words too
WordBoundaryAnywhere(s, i) == TRUE

\* \w and \b of the re module
IsWordChar(c) == IsUpper(c) \/ IsLower(c) \/ c \in Digits \/ c = "_"
WordBoundary(s, i) ==
    (i > 1 /\ i - 1 <= Len(s) /\ IsWordChar(s[i - 1]))
        # (i >= 1 /\ i <= Len(s) /\ IsWordChar(s[i]))

\* the end of the match of ORDER_NUMBER_REGEX (line 100) that starts at
\* position i, 0 when there is none: \b, 2-5 upper-case letters, a hyphen,
\* 5-7 digits, \b
OrderMatchEnd(s, i) ==
    LET h == RunEnd(s, i, DOMAIN LowerOf) + 1     \* where the hyphen must be
        e == RunEnd(s, h + 1, Digits)             \* the last digit
    IN  IF /\ WordBoundary(s, i)
           /\ h - i >= 2 /\ h - i <= 5
           /\ h <= Len(s) /\ s[h] = "-"
           /\ e - h >= 5 /\ e - h <= 7
           /\ WordBoundary(s, e + 1)
        THEN e ELSE 0

OrderMatchStarts(s) == {i \in 1..Len(s) : OrderMatchEnd(s, i) # 0}

\* ORDER_NUMBER_REGEX.search(text) finds a match
HasOrderNumber(s) == OrderMatchStarts(s) # {}

\* extract_order_number (lines 102-106): the leftmost match
extract_order_number(text) ==
    IF ~Truthy(text) \/ ~HasOrderNumber(text) THEN None
    ELSE LET i == CHOOSE a \in OrderMatchStarts(text) :
                      \A b \in OrderMatchStarts(text) : a <= b
         IN  SubSeq(text, i, OrderMatchEnd(text, i))

\* \d{2}\.\d{2}\.\d{4} at position i (lines 119, 126, 175)
DateAt(s, i) ==
    /\ i >= 1 /\ i + 9 <= Len(s)
    /\ \A k \in {0, 1, 3, 4, 6, 7, 8, 9} : s[i + k] \in Digits
    /\ s[i + 2] = "." /\ s[i + 5] = "."

\* the word "ot" (Cyrillic "от") that opens both address patterns
WordFrom == <<"o", "t">>

\* where `$` puts the end of the captured group: the end of the text, or
\* the character before a final newline
GroupEnd(s) == IF Len(s) >= 1 /\ s[Len(s)] = "\n" THEN Len(s) - 1 ELSE Len(s)

\* `,\s*(.+)$` matches after the comma at position c: some split of the
\* rest into whitespace and a non-empty group without a newline
TailMatches(s, c) ==
    \E j \in (c + 1)..GroupEnd(s) :
        /\ \A k \in (c + 1)..(j - 1) : s[k] \in Whitespace
        /\ \A k \in j..GroupEnd(s) : s[k] # "\n"

\* the comma of pattern 1 (line 119) when it matches from position i, else 0:
\* ot \s+ date \s+ [\d:]+ ,
DateTimeComma(s, i) ==
    LET a == RunEnd(s, i + 2, Whitespace)
        b == RunEnd(s, a + 11, Whitespace)
        c == RunEnd(s, b + 1, Digits \cup {":"})
    IN  IF /\ HasAt(s, i, WordFrom)
           /\ a >= i + 2
           /\ DateAt(s, a + 1)
           /\ b >= a + 11
           /\ c >= b + 1
           /\ c + 1 <= Len(s) /\ s[c + 1] = ","
           /\ TailMatches(s, c + 1)
        THEN c + 1 ELSE 0

\* the comma of pattern 2 (line 126) when it matches from position i, else 0:
\* ot \s+ date [^,]* ,
DateComma(s, i) ==
    LET a == RunEnd(s, i + 2, Whitespace)
        c == RunEnd(s, a + 11, {s[k] : k \in 1..Len(s)} \ {","})
    IN  IF /\ HasAt(s, i, WordFrom)
           /\ a >= i + 2
           /\ DateAt(s, a + 1)
           /\ c + 1 <= Len(s) /\ s[c + 1] = ","
           /\ TailMatches(s, c + 1)
        THEN c + 1 ELSE 0

\* group(1).strip() of the leftmost match of a pattern, None without a match
AddressAfter(s, commas) ==
    IF commas = {} THEN None
    ELSE LET c == CHOOSE a \in commas : \A b \in commas : a <= b
         IN  strip(SubSeq(s, c + 1, GroupEnd(s)))

\* str.isdigit()
IsDigitText(s) == Len(s) >= 1 /\ \A k \in 1..Len(s) : s[k] \in Digits

\* s with the characters of S removed
Without(s, S) == SelectSeq(s, LAMBDA c : c \notin S)

\* extract_address (lines 108-140)
extract_address(text) ==
    IF ~Truthy(text) THEN None
    ELSE LET a1 == AddressAfter(text,
                       {DateTimeComma(text, i) : i \in 1..Len(text)} \ {0})
             a2 == AddressAfter(text,
                       {DateComma(text, i) : i \in 1..Len(text)} \ {0})
             cs == {k \in 1..Len(text) : text[k] = ","}
             a3 == IF cs = {} THEN None
                   ELSE strip(SubSeq(text,
                                  (CHOOSE a \in cs : \A b \in cs : a <= b) + 1,
                                  Len(text)))
         IN  IF a1 # None /\ Len(a1) > 5 THEN a1
             ELSE IF a2 # None /\ Len(a2) > 5 THEN a2
             ELSE IF /\ HasOrderNumber(text)
                     /\ a3 # None
                     /\ Len(a3) > 5
                     /\ ~IsDigitText(Without(a3, {" ", ":", "."}))
                  THEN a3
             ELSE None

(***************************************************************************)
(* Spreadsheet cells, row classification (lines 142-193)                   *)
(***************************************************************************)

\* a cell of the DataFrame: empty (NaN), a text, or an integer number
NaN == [kind |-> "nan", text |-> <<>>, num |-> 0]
Str(t) == [kind |-> "str", text |-> t, num |-> 0]
Num(n) == [kind |-> "num", text |-> <<>>, num |-> n]

\* pd.notna
notna(v) == v.kind # "nan"

DigitOf == <<"0", "1", "2", "3", "4", "5", "6", "7", "8", "9">>

RECURSIVE NatText(_)
NatText(n) ==
    IF n < 10 THEN <<DigitOf[n + 1]>>
    ELSE NatText(n \div 10) \o <<DigitOf[(n % 10) + 1]>>

\* str(v) of a cell
str(v) ==
    IF v.kind = "nan" THEN <<"n", "a", "n">>
    ELSE IF v.kind = "str" THEN v.text
    ELSE IF v.num < 0 THEN <<"-">> \o NatText(0 - v.num)
    ELSE NatText(v.num)

\* [str(v) for v in vs]
strs(vs) == [i \in 1..Len(vs) |-> str(vs[i])]

\* Cyrillic keywords of lines 148 and 152, transliterated
TemplateKeywords ==
    {<<"z", "a", "k", "a", "z">>, <<"k", "l", "i", "e", "n", "t">>, <<"m", "o", "n", "t", "a", "z", "h">>,
    <<"d", "i", "a", "g", "n", "o", "s", "t">>, <<"v", "y", "e", "z", "d">>, <<"a", "d", "r", "e", "s">>, <<"s", "u", "m", "m", "a">>}
KW_itogo == <<"i", "t", "o", "g", "o">>

\* is_template_row (lines 142-158); row is the list of the row's values. No
\* value of a DataFrame row is None, so every cell is joined, "nan" included
is_template_row(row) ==
    LET joined == lower(strip(join_space(strs(row))))
    IN  IF joined = <<>> THEN TRUE
        ELSE IF \E k \in TemplateKeywords : Contains(joined, k) THEN FALSE
        ELSE IF StartsWith(joined, KW_itogo) THEN TRUE
        ELSE IF (\A i \in 1..Len(joined) : joined[i] \notin Digits)
                    /\ Len(joined) < 10 THEN TRUE
        ELSE FALSE

\* re.sub(r'\([^)]*\)', '', s) (line 179): every "(" that has a ")" after it
\* is dropped together with the text up to the first such ")"
strip_parens(s) ==
    LET closes(i) == {j \in (i + 1)..Len(s) : s[j] = ")"}
        F[i \in 0..Len(s)] ==
            \* <<the text kept so far, the position up to which to drop>>
            IF i = 0 THEN <<(<<>>), 0>>
            ELSE LET prev == F[i - 1]
                 IN  IF i <= prev[2] THEN prev
                     ELSE IF s[i] = "(" /\ closes(i) # {}
                     THEN <<prev[1],
                            CHOOSE j \in closes(i) : \A k \in closes(i) : j <= k>>
                     ELSE <<Append(prev[1], s[i]), prev[2]>>
    IN  F[Len(s)][1]

\* is_worker_header (lines 160-193); "#" stands for the numero sign of
\* line 188
is_worker_header(text0) ==
    IF text0 = <<>> THEN FALSE
    ELSE LET text == strip(text0)
             text_clean == strip(strip_parens(text))
             words == split(text_clean)
         IN  IF HasOrderNumber(text) THEN FALSE
             ELSE IF \E i \in 1..Len(text) : DateAt(text, i) THEN FALSE
             ELSE /\ 2 <= Len(words) /\ Len(words) <= 3
                  /\ \A i \in 1..Len(words) : IsUpper(words[i][1])
                  /\ \A i \in 1..Len(text_clean) :
                         text_clean[i] \notin Digits \cup {"#", "/", "\\"}

(***************************************************************************)
(* Column location (lines 681-788) and the interpretation of one row       *)
(* (lines 807-925)                                                         *)
(***************************************************************************)

KW_vyruchka == <<"v", "y", "r", "u", "c", "h", "k", "a">>
KW_diagnost == <<"d", "i", "a", "g", "n", "o", "s", "t">>
KW_vyezd == <<"v", "y", "e", "z", "d">>
KW_specialist == <<"s", "p", "e", "c", "i", "a", "l", "i", "s", "t">>

\* the first position of `tries` (a list of column positions) that is one of
\* `matching` (the positions of the columns whose label passes the test),
\* 0 (None) when there is none
FirstColumn(tries, matching) ==
    LET hits == {k \in 1..Len(tries) : tries[k] \in matching}
    IN  IF hits = {} THEN 0
        ELSE tries[CHOOSE k \in hits : \A j \in hits : k <= j]

\* all the columns, left to right
ByName(columns) == [i \in 1..Len(columns) |-> i]

\* the labels a payout column may carry (lines 696, 708)
IsPayoutLabel(c) ==
    LET name == lower(strip(c))
    IN  Contains(name, KW_itogo) /\ ~Contains(name, KW_vyruchka)

IsDiagnosticLabel(c) == Contains(lower(c), KW_diagnost)

IsInspectionLabel(c) ==
    Contains(lower(c), KW_vyezd) /\ Contains(lower(c), KW_specialist)

PayoutColumns(columns) ==
    {i \in 1..Len(columns) : IsPayoutLabel(columns[i])}
DiagnosticColumns(columns) ==
    {i \in 1..Len(columns) : IsDiagnosticLabel(columns[i])}
InspectionColumns(columns) ==
    {i \in 1..Len(columns) : IsInspectionLabel(columns[i])}

\* the fallback positions of lines 704, 750 and 778, counted from 1
PayoutPositions == <<19, 18, 20, 17, 21, 16>>
DiagnosticPositions == <<5, 6, 4, 7>>
InspectionPositions == <<7, 8, 6, 9>>

\* payout_col (lines 689-712): by name, then by position; 0 stands for None
find_payout_col(columns) ==
    LET by_name == FirstColumn(ByName(columns), PayoutColumns(columns))
    IN  IF by_name # 0 THEN by_name
        ELSE FirstColumn(PayoutPositions, PayoutColumns(columns))

\* diagnostic_col (lines 736-757)
find_diagnostic_col(columns) ==
    LET by_name == FirstColumn(ByName(columns), DiagnosticColumns(columns))
    IN  IF by_name # 0 THEN by_name
        ELSE FirstColumn(DiagnosticPositions, DiagnosticColumns(columns))

\* inspection_col (lines 763-785)
find_inspection_col(columns) ==
    LET by_name == FirstColumn(ByName(columns), InspectionColumns(columns))
    IN  IF by_name # 0 THEN by_name
        ELSE FirstColumn(InspectionPositions, InspectionColumns(columns))

\* A float is kept exactly, as mantissa m over 10^d. ok = FALSE is the
\* ValueError of float().
NoFloat == [ok |-> FALSE, m |-> 0, d |-> 0]
Float(m, d) == [ok |-> TRUE, m |-> m, d |-> d]

RECURSIVE Pow10(_)
Pow10(d) == IF d = 0 THEN 1 ELSE 10 * Pow10(d - 1)

\* int(digits) of a run of decimal digits, 0 for the empty run
NatOf(ds) ==
    LET F[i \in 0..Len(ds)] ==
            IF i = 0 THEN 0
            ELSE 10 * F[i - 1]
                   + ((CHOOSE k \in 1..10 : DigitOf[k] = ds[i]) - 1)
    IN  F[Len(ds)]

\* x > k for a float x and an integer k
GreaterThan(x, k) == x.m > k * Pow10(x.d)

\* float(text): surrounding whitespace, a sign, digits with at most one
\* point. The exponent, inf / nan and digit-group underscore notations are
\* not modelled; no cell of the pools below uses them.
to_float(text) ==
    LET t == strip(text)
        signed == Len(t) >= 1 /\ t[1] \in {"+", "-"}
        body == IF signed THEN SubSeq(t, 2, Len(t)) ELSE t
        points == {i \in 1..Len(body) : body[i] = "."}
        digits == Without(body, {"."})
    IN  IF /\ Cardinality(points) <= 1
           /\ IsDigitText(digits)
        THEN LET d == IF points = {} THEN 0
                      ELSE Len(body) - (CHOOSE i \in points : TRUE)
                 m == NatOf(digits)
             IN  Float(IF signed /\ t[1] = "-" THEN 0 - m ELSE m, d)
        ELSE NoFloat

\* raw.replace(" ", "").replace(",", ".") (lines 835, 848, 863)
clean_amount(text) ==
    LET kept == Without(text, {" "})
    IN  [i \in 1..Len(kept) |-> IF kept[i] = "," THEN "." ELSE kept[i]]

\* payout_val (lines 829-840) of the cell `raw` of the payout column; col = 0
\* when the column was not found. NoFloat stands for None.
payout_of(col, row) ==
    IF col = 0 \/ ~notna(row[col]) THEN NoFloat
    ELSE IF row[col].kind = "str" THEN to_float(clean_amount(row[col].text))
    ELSE Float(row[col].num, 0)

\* diag_sum / insp_sum (lines 843-871): 0.0 unless the cell parses
amount_sum(col, row) ==
    IF col = 0 \/ ~notna(row[col]) THEN Float(0, 0)
    ELSE LET val == IF row[col].kind = "str"
                    THEN clean_amount(row[col].text)
                    ELSE str(row[col])
             x == to_float(val)
         IN  IF x.ok THEN x ELSE Float(0, 0)

InstallationThreshold == 5000

\* a faulty variant: a payout of exactly the threshold counts as installation
resolve_work_type_at_threshold(diag_sum, insp_sum, payout_val) ==
    IF GreaterThan(diag_sum, 0) THEN "diagnostic"
    ELSE IF GreaterThan(insp_sum, 0) THEN "inspection"
    ELSE IF payout_val.ok /\ GreaterThan(payout_val, InstallationThreshold - 1)
    THEN "installation"
    ELSE "other"

\* work_type (lines 877-890)
resolve_work_type(diag_sum, insp_sum, payout_val) ==
    IF GreaterThan(diag_sum, 0) THEN "diagnostic"
    ELSE IF GreaterThan(insp_sum, 0) THEN "inspection"
    ELSE IF payout_val.ok /\ GreaterThan(payout_val, InstallationThreshold)
    THEN "installation"
    ELSE "other"

\* text_cell (lines 814-819): the first column's cell, or every non-empty
\* cell joined when that is blank
text_cell_of(columns, row) ==
    LET first == IF Len(columns) > 0 /\ columns[1] # <<>> /\ notna(row[1])
                 THEN strip(str(row[1]))
                 ELSE <<>>
    IN  IF first # <<>> THEN first
        ELSE join_space(strs(SelectSeq(row, notna)))

\* the row is skipped by line 811 or by line 822
is_skipped(columns, row) ==
    is_template_row(row) \/ is_worker_header(text_cell_of(columns, row))

\* the fields one pass of the loop body (lines 807-925) computes for a row
\* that is not skipped
interpret_row(columns, row) ==
    LET text_cell == text_cell_of(columns, row)
        payout_val == payout_of(find_payout_col(columns), row)
        diag_sum == amount_sum(find_diagnostic_col(columns), row)
        insp_sum == amount_sum(find_inspection_col(columns), row)
    IN  [order_number |-> extract_order_number(text_cell),
         address |-> extract_address(text_cell),
         payout |-> payout_val,
         work_type |-> resolve_work_type(diag_sum, insp_sum, payout_val)]

(***************************************************************************)
(* The values the text columns of the orders table hold                    *)
(***************************************************************************)

\* order ids as extract_order_number returns them (line 100): 2-5 upper-case
\* letters, a hyphen, 5-7 digits
OrderKA == <<"K","A","-","1","0","0","0","1">>
OrderKB == <<"K","B","-","1","0","0","0","1">>
OrderNumbers == <<None, OrderKA, OrderKB>>

\* addresses as extract_address returns them (lines 119-140): stripped and
\* longer than 5 characters
AddrDom      == <<"M","o",","," ","D","o","m"," ","1">>
AddrDomLoud  == <<"M","O",","," "," ","d","o","m"," ","1">>
AddrGaps     == <<"a"," "," "," "," ","b">>
Addresses == <<None, AddrDom, AddrDomLoud, AddrGaps>>

\* the four work types (lines 878-887)
WorkTypes == {"diagnostic", "inspection", "installation", "other"}

\* the work types of the stored rows of the analysis specification: the
\* analysis compares work types for equality only (lines 249, 277)
StoredWorkTypes == <<"diagnostic", "installation", "other">>

\* normalize_text and strip().upper() of the stored values, computed once
normalized == [t \in Range(Addresses) |-> normalize_text(t)]
stripped_upper == [t \in Range(OrderNumbers) \ {None} |-> upper(strip(t))]

(***************************************************************************)
(* Duplicate analysis (lines 202-335)                                      *)
(***************************************************************************)

\* the sample cap of the report bundle (lines 331-334)
SampleCap == 50

\* file_id = None of analyze_duplicates_for_file; `if file_id:` (lines 226,
\* 321) is false for None and for 0 alike, and File.id starts at 1
NoFile == 0

\* row_short (lines 202-212), the fields the store model keeps
row_short(r) ==
    [id |-> r.id, file_id |-> r.file_id, order_number |-> r.order_number,
     address |-> r.address, work_type |-> r.work_type]

short_rows(rows) == [i \in 1..Len(rows) |-> row_short(rows[i])]

\* a faulty variant of the key: the address as stored, not normalized
order_address_key_raw(r) == <<stripped_upper[r.order_number], r.address>>

\* the clustering key of lines 237-240
order_address_key(r) ==
    <<stripped_upper[r.order_number], normalized[r.address]>>

\* clusters_by_order_address after the loop of lines 235-241: the dict's
\* items, in insertion order
clusters_by_order_address(all_orders) ==
    LET elig == SelectSeq(all_orders,
                    LAMBDA r : Truthy(r.order_number) /\ Truthy(r.address))
        ks   == [i \in 1..Len(elig) |-> order_address_key(elig[i])]
        keys == dict_keys(ks)
    IN  [k \in 1..Len(keys) |->
            [key |-> keys[k],
             rows |-> SelectIdx(elig, {i \in 1..Len(elig) : ks[i] = keys[k]})]]

\* by_type of lines 247-249: the dict's items, in insertion order
by_type(rows) ==
    LET wts == dict_keys([i \in 1..Len(rows) |-> rows[i].work_type])
    IN  [k \in 1..Len(wts) |->
            [wt |-> wts[k],
             items |-> SelectSeq(rows, LAMBDA r : r.work_type = wts[k])]]

\* the reports one cluster adds to hard_duplicates (lines 243-259)
hard_reports(cluster) ==
    IF Len(cluster.rows) < 2 THEN <<>>
    ELSE LET bt == by_type(cluster.rows)
         IN  Concat([k \in 1..Len(bt) |->
                 IF Len(bt[k].items) >= 2
                 THEN << [order_number |-> cluster.key[1],
                          address |-> cluster.rows[1].address,
                          work_type |-> bt[k].wt,
                          rows |-> short_rows(bt[k].items)] >>
                 ELSE <<>>])

\* hard_duplicates (lines 231-259)
hard_duplicates(all_orders) ==
    LET cl == clusters_by_order_address(all_orders)
    IN  Concat([k \in 1..Len(cl) |-> hard_reports(cl[k])])

\* clusters_by_address after the loop of lines 266-270
clusters_by_address(all_orders) ==
    LET elig == SelectSeq(all_orders,
                    LAMBDA r : Truthy(r.address)
                               /\ Len(normalized[r.address]) > 5)
        ks   == [i \in 1..Len(elig) |-> normalized[elig[i].address]]
        keys == dict_keys(ks)
    IN  [k \in 1..Len(keys) |->
            [key |-> keys[k],
             rows |-> SelectIdx(elig, {i \in 1..Len(elig) : ks[i] = keys[k]})]]


\* a faulty variant: the order ids of a group are taken from its first row
order_numbers_of_first(rows) ==
    {rows[i].order_number : i \in {j \in {1} : Truthy(rows[j].order_number)}}

\* work_types and order_numbers of lines 277-278
work_types_of(rows) == {rows[i].work_type : i \in 1..Len(rows)}
order_numbers_of(rows) ==
    {rows[i].order_number : i \in {j \in 1..Len(rows) : Truthy(rows[j].order_number)}}

\* a faulty variant: the order ids of the group are not looked at
is_hard_duplicate_types_only(rows) ==
    Cardinality(work_types_of(rows)) = 1 /\ Len(rows) >= 2

\* is_hard_duplicate of lines 282-286
is_hard_duplicate(rows) ==
    /\ Cardinality(order_numbers_of(rows)) = 1
    /\ Cardinality(work_types_of(rows)) = 1
    /\ Len(rows) >= 2

\* combo_clusters (lines 261-294); list(set) of lines 291-292 has no
\* defined order and is kept as the set
combo_clusters(all_orders) ==
    LET cl == clusters_by_address(all_orders)
    IN  Concat([k \in 1..Len(cl) |->
            IF Len(cl[k].rows) < 2 \/ is_hard_duplicate(cl[k].rows) THEN <<>>
            ELSE << [address |-> cl[k].rows[1].address,
                     order_numbers |-> order_numbers_of(cl[k].rows),
                     work_types |-> work_types_of(cl[k].rows),
                     rows |-> short_rows(cl[k].rows)] >>])

\* clusters_by_order after the loop of lines 300-302
clusters_by_order(all_orders) ==
    LET elig == SelectSeq(all_orders, LAMBDA r : Truthy(r.order_number))
        ks   == [i \in 1..Len(elig) |-> stripped_upper[elig[i].order_number]]
        keys == dict_keys(ks)
    IN  [k \in 1..Len(keys) |->
            [key |-> keys[k],
             rows |-> SelectIdx(elig, {i \in 1..Len(elig) : ks[i] = keys[k]})]]

\* a faulty variant: the addresses as stored, not normalized
review_addresses_raw(rows) ==
    {rows[i].address : i \in {j \in 1..Len(rows) : Truthy(rows[j].address)}}

\* addresses of line 309
review_addresses(rows) ==
    {normalized[rows[i].address] :
        i \in {j \in 1..Len(rows) : Truthy(rows[j].address)}}

\* needs_review (lines 296-317)
needs_review(all_orders) ==
    LET cl == clusters_by_order(all_orders)
    IN  Concat([k \in 1..Len(cl) |->
            IF Len(cl[k].rows) < 2 THEN <<>>
            ELSE IF Cardinality(review_addresses(cl[k].rows)) > 1
            THEN << [order_number |-> cl[k].key,
                     addresses |-> LET a == SelectSeq(cl[k].rows,
                                               LAMBDA r : Truthy(r.address))
                                   IN  [i \in 1..Len(a) |-> a[i].address],
                     rows |-> short_rows(cl[k].rows)] >>
            ELSE <<>>])

\* the rows the query of lines 225-229 selects
query_orders(db_orders, file_id) ==
    IF file_id # NoFile
    THEN {r \in db_orders : r.file_id = file_id}
    ELSE db_orders

\* the rows the query of lines 320-324 selects
query_problematic(db_orders, file_id) ==
    IF file_id # NoFile
    THEN {r \in db_orders : r.is_problematic /\ r.file_id = file_id}
    ELSE {r \in db_orders : r.is_problematic}

\* the orders in which a SELECT without ORDER BY may return a set of rows
Orderings(rows) ==
    {s \in [1..Cardinality(rows) -> rows] :
        \A i, j \in 1..Cardinality(rows) : s[i] = s[j] => i = j}

\* the report bundle analyze_duplicates_for_file returns (lines 231-335),
\* from the results of its two queries
report_bundle(all_orders, problematic_orders, file_id) ==
    LET hard   == hard_duplicates(all_orders)
        combo  == combo_clusters(all_orders)
        review == needs_review(all_orders)
    IN  [file_id |-> file_id,
         hard_duplicates_count |-> Len(hard),
         combo_clusters_count |-> Len(combo),
         needs_review_count |-> Len(review),
         problematic_count |-> Len(problematic_orders),
         hard_duplicates_sample |-> Take(hard, SampleCap),
         combo_clusters_sample |-> Take(combo, SampleCap),
         needs_review_sample |-> Take(review, SampleCap),
         problematic_sample |-> Take(short_rows(problematic_orders), SampleCap)]

\* the results analyze_duplicates_for_file (lines 214-335) may return on a
\* committed orders table: both queries read the same rows in the same order
analyze_duplicates_for_file(db_orders, file_id) ==
    {report_bundle(all_orders,
                   SelectSeq(all_orders,
                       LAMBDA r : r \in query_problematic(db_orders, file_id)),
                   file_id) :
        all_orders \in Orderings(query_orders(db_orders, file_id))}

(***************************************************************************)
(* The record store and the analysis requests                              *)
(***************************************************************************)

\* the most rows the orders table holds in the analysis specification
MaxOrders == 2

FileIds == {1, 2}

\* an OrderRow as upload_file builds it (lines 902-921): the flags follow
\* from the extracted fields
OrderRow(id, file_id, order_number, address, work_type) ==
    [id |-> id, file_id |-> file_id, order_number |-> order_number,
     address |-> address, work_type |-> work_type,
     is_problematic |-> (~Truthy(order_number) \/ ~Truthy(address)),
     parsed_ok |-> ~(~Truthy(order_number) \/ ~Truthy(address))]

NoReport == <<>>

\* POST /api/files/{file_id}/recalc (lines 563-567)
api_recalc_file(file_id) ==
    /\ \E bundle \in analyze_duplicates_for_file(orders, file_id) :
         report' = <<bundle>>
    /\ UNCHANGED <<files, orders, logs, next_id, req, row_in, row_out, scan>>

\* GET /api/dashboard/all (lines 455-493): the analysis of all files
api_dashboard_all ==
    /\ \E bundle \in analyze_duplicates_for_file(orders, NoFile) :
         report' = <<bundle>>
    /\ UNCHANGED <<files, orders, logs, next_id, req, row_in, row_out, scan>>

\* the contents of one row: the p-th combination of file, order id, address
\* and work type
RowKinds == 2 * Len(OrderNumbers) * Len(Addresses) * Len(StoredWorkTypes)
RowOfKind(id, p) ==
    OrderRow(id,
             (p % 2) + 1,
             OrderNumbers[((p \div 2) % Len(OrderNumbers)) + 1],
             Addresses[((p \div (2 * Len(OrderNumbers))) % Len(Addresses)) + 1],
             StoredWorkTypes[(p \div (2 * Len(OrderNumbers) * Len(Addresses))) + 1])

\* A database that holds the rows of earlier uploads when the service
\* starts: on_startup (lines 82-90) keeps the tables unless RESET_DB is set.
\* The code never compares OrderRow.id, so the tables are listed up to the
\* renaming of primary keys (the kinds of the rows 1..n do not decrease).
InitAnalyze ==
    /\ files = FileIds
    /\ \E n \in 0..MaxOrders : \E t \in [1..n -> 0..(RowKinds - 1)] :
         /\ \A i \in 1..(n - 1) : t[i] <= t[i + 1]
         /\ orders = {RowOfKind(i, t[i]) : i \in 1..n}
    /\ logs = {}
    /\ next_id = 3
    /\ req = <<>>
    /\ report = NoReport
    /\ row_in = <<>>
    /\ row_out = <<>>
    /\ scan = <<>>

\* one analysis request is followed on the stored table
NextAnalyze ==
    /\ report = NoReport
    /\ \/ \E f \in FileIds : api_recalc_file(f)
       \/ api_dashboard_all

SpecAnalyze == InitAnalyze /\ [][NextAnalyze]_vars

(***************************************************************************)
(* Properties of the analysis                                              *)
(***************************************************************************)

\* the bundle of the analysis request, and the rows its scope covers
Rep == report[1]
InScope == {r \in orders : Rep.file_id = NoFile \/ r.file_id = Rep.file_id}
Ids(rows) == {rows[i].id : i \in 1..Len(rows)}

\* the in-scope rows that have an order id and an address, and their triples
Keyed == {r \in InScope : r.order_number # None /\ r.address # None}
HardTriple(r) ==
    <<stripped_upper[r.order_number], normalized[r.address], r.work_type>>
SharedTriples ==
    {HardTriple(r) : r \in {x \in Keyed :
        \E y \in Keyed : y.id # x.id /\ HardTriple(y) = HardTriple(x)}}
ReportTriple(h) == <<h.order_number, normalized[h.address], h.work_type>>

\* C1: analyze emits exactly one hard-duplicate report for each triple
\* (trimmed upper-cased order id, normalized address, work type) shared by
\* at least 2 in-scope rows that have an order id and an address, and no
\* other; each report lists all rows of its triple and only those, and
\* hard_duplicates_count is the number of such triples.
C1_HardDuplicateReports ==
    report # NoReport =>
        LET hard == Rep.hard_duplicates_sample
        IN  /\ Rep.hard_duplicates_count = Cardinality(SharedTriples)
            /\ Len(hard) = Cardinality(SharedTriples)
            /\ \A t \in SharedTriples :
                 \E i \in 1..Len(hard) : ReportTriple(hard[i]) = t
            /\ \A i \in 1..Len(hard) :
                 LET members == {r \in Keyed : HardTriple(r) = ReportTriple(hard[i])}
                 IN  /\ ReportTriple(hard[i]) \in SharedTriples
                     /\ Range(hard[i].rows) = {row_short(r) : r \in members}
                     /\ Len(hard[i].rows) = Cardinality(members)

\* a hard duplicate is reported whose rows spell the address differently
C1_Witness ==
    /\ report # NoReport
    /\ Rep.hard_duplicates_count = 1
    /\ \E x, y \in Range(Rep.hard_duplicates_sample[1].rows) : x.address # y.address

\* the in-scope rows grouped by normalized address
Addressed == {r \in InScope : r.address # None}
AddressGroup(k) == {r \in Addressed : normalized[r.address] = k}
AddressKeys == {normalized[r.address] : r \in Addressed}
SharedAddressKeys == {k \in AddressKeys : Cardinality(AddressGroup(k)) >= 2}

\* the (order id, normalized address) clusters of the in-scope rows
OrderAddressCluster(k) ==
    {r \in Keyed : <<stripped_upper[r.order_number], normalized[r.address]>> = k}
OrderAddressKeys ==
    {<<stripped_upper[r.order_number], normalized[r.address]>> : r \in Keyed}

ReportedCombos ==
    {Ids(Rep.combo_clusters_sample[i].rows) : i \in 1..Len(Rep.combo_clusters_sample)}

ReportedHard ==
    {Ids(Rep.hard_duplicates_sample[i].rows) : i \in 1..Len(Rep.hard_duplicates_sample)}

\* C5: every group of at least 2 in-scope rows sharing a normalized address
\* (rows without an order id included) is in the address-cluster list unless
\* all its rows carry the same order id and the same work type, and no such
\* group is left out of both the hard-duplicate and the address-cluster list.
C5_AddressGroupsReported ==
    report # NoReport =>
        \A k \in SharedAddressKeys :
            LET ids == {r.id : r \in AddressGroup(k)}
                same == \A x, y \in AddressGroup(k) :
                            /\ x.order_number # None
                            /\ x.order_number = y.order_number
                            /\ x.work_type = y.work_type
            IN  /\ ~same => ids \in ReportedCombos
                /\ ids \in ReportedCombos \/ ids \in ReportedHard

\* the in-scope rows grouped by trimmed upper-cased order id
Numbered == {r \in InScope : r.order_number # None}
OrderGroup(k) == {r \in Numbered : stripped_upper[r.order_number] = k}
OrderKeys == {stripped_upper[r.order_number] : r \in Numbered}
ConflictingOrderKeys ==
    {k \in OrderKeys :
        /\ Cardinality(OrderGroup(k)) >= 2
        /\ \E x, y \in OrderGroup(k) :
             /\ x.address # None /\ y.address # None
             /\ normalized[x.address] # normalized[y.address]}

\* C6: a group of at least 2 rows sharing a trimmed upper-cased order id is
\* in needs_review iff two of its rows carry addresses whose normalized
\* forms differ; rows without an address neither trigger nor suppress the
\* report, and a reported group lists all its rows.
C6_NeedsReview ==
    report # NoReport =>
        LET rev == Rep.needs_review_sample
        IN  /\ Rep.needs_review_count = Cardinality(ConflictingOrderKeys)
            /\ Len(rev) = Cardinality(ConflictingOrderKeys)
            /\ \A k \in ConflictingOrderKeys :
                 \E i \in 1..Len(rev) : rev[i].order_number = k
            /\ \A i \in 1..Len(rev) :
                 /\ rev[i].order_number \in ConflictingOrderKeys
                 /\ Range(rev[i].rows) =
                        {row_short(r) : r \in OrderGroup(rev[i].order_number)}
                 /\ Len(rev[i].rows) = Cardinality(OrderGroup(rev[i].order_number))

\* two in-scope records with one order id whose addresses differ after
\* normalization, and the one group reported for them
C6_Witness ==
    /\ report # NoReport
    /\ Rep.needs_review_count = 1
    /\ \E x, y \in Numbered :
           /\ x.id # y.id
           /\ stripped_upper[x.order_number] = stripped_upper[y.order_number]
           /\ x.address # None /\ y.address # None
           /\ normalized[x.address] # normalized[y.address]


\* the clusters of a list, each as the set of its member records
MemberSets(list) == {Ids(list[i].rows) : i \in 1..Len(list)}

\* a report with the order of its members forgotten and everything else kept
Loose(c) ==
    [f \in DOMAIN c |->
        IF f \in {"rows", "addresses"} THEN Range(c[f]) ELSE c[f]]
LooseReports(list) == {Loose(list[i]) : i \in 1..Len(list)}

\* the bundles of the request's scope, one for each order in which the
\* store may return the rows
BundlesOfScope == analyze_duplicates_for_file(orders, Rep.file_id)

\* the bundle of the request's scope when the store returns the rows by
\* ascending id. Every order in which the store may return the rows gives a
\* report of its own, so bundles that all agree with this one agree with
\* each other
ById(rows) ==
    CHOOSE s \in Orderings(rows) :
        \A i, j \in 1..Len(s) : i < j => s[i].id < s[j].id
BundleById ==
    LET all_orders == ById(query_orders(orders, Rep.file_id))
    IN  report_bundle(all_orders,
                      SelectSeq(all_orders,
                          LAMBDA r : r \in query_problematic(orders, Rep.file_id)),
                      Rep.file_id)

\* C14 (as stated): in whatever order the store returns the rows, the
\* three counts are the same and the bundles differ in nothing but the order
\* of the reports and of the members of a report
C14_OnlyOrderDiffers ==
    report # NoReport =>
        \A b \in {BundleById} :
            /\ Rep.hard_duplicates_count = b.hard_duplicates_count
            /\ Rep.combo_clusters_count = b.combo_clusters_count
            /\ Rep.needs_review_count = b.needs_review_count
            /\ LooseReports(Rep.hard_duplicates_sample)
                   = LooseReports(b.hard_duplicates_sample)
            /\ LooseReports(Rep.combo_clusters_sample)
                   = LooseReports(b.combo_clusters_sample)
            /\ LooseReports(Rep.needs_review_sample)
                   = LooseReports(b.needs_review_sample)

\* C14 (amended): in whatever order the store returns the rows, the three
\* counts are the same and each list holds the same clusters, a cluster
\* taken as the set of its member records; the address a report shows is
\* that of the member returned first and may differ
C14_OrderIndependentClusters ==
    report # NoReport =>
        \A b \in {BundleById} :
            /\ Rep.hard_duplicates_count = b.hard_duplicates_count
            /\ Rep.combo_clusters_count = b.combo_clusters_count
            /\ Rep.needs_review_count = b.needs_review_count
            /\ MemberSets(Rep.hard_duplicates_sample)
                   = MemberSets(b.hard_duplicates_sample)
            /\ MemberSets(Rep.combo_clusters_sample)
                   = MemberSets(b.combo_clusters_sample)
            /\ MemberSets(Rep.needs_review_sample)
                   = MemberSets(b.needs_review_sample)

\* two orders of the same rows give bundles that differ, and a cluster is
\* reported
C14_Witness ==
    /\ report # NoReport
    /\ Cardinality(BundlesOfScope) >= 2
    /\ Rep.hard_duplicates_count + Rep.combo_clusters_count
           + Rep.needs_review_count >= 1

(***************************************************************************)
(* The loop body of upload_file (lines 807-925) as a function of one row   *)
(***************************************************************************)

\* header rows of four columns; the first column is the order column
\*   "Zakaz" | "Diagnostika" | "Vyezd specialista" | "Itogo"
HeaderFull ==
    <<<<"Z", "a", "k", "a", "z">>,
      <<"D", "i", "a", "g", "n", "o", "s", "t", "i", "k", "a">>,
      <<"V", "y", "e", "z", "d", " ", "s", "p", "e", "c", "i", "a", "l", "i", "s", "t", "a">>,
      <<"I", "t", "o", "g", "o">>>>
\*   ... | "Vyruchka itogo": no payout column (line 696)
HeaderRevenue ==
    <<<<"Z", "a", "k", "a", "z">>,
      <<"O", "p", "l", "a", "t", "a", " ", "d", "i", "a", "g", "n", "o", "s", "t", "i", "k", "i">>,
      <<"V", "y", "r", "u", "c", "h", "k", "a", " ", "(", "v", "y", "e", "z", "d", ")", " ", "s", "p", "e", "c", "i", "a", "l", "i", "s", "t", "a">>,
      <<"V", "y", "r", "u", "c", "h", "k", "a", " ", "i", "t", "o", "g", "o">>>>
\*   "Nomer" | "Data" | "Oplata" | "ITOGO": no diagnostic, no inspection column
HeaderBare ==
    <<<<"N", "o", "m", "e", "r">>,
      <<"D", "a", "t", "a">>,
      <<"O", "p", "l", "a", "t", "a">>,
      <<"I", "T", "O", "G", "O">>>>
Headers == {HeaderFull, HeaderRevenue, HeaderBare}

\* texts of the order column
\*   "KA-10001 ot 01.02.2024 10:00, Mo, Dom 1"
TextOrder == <<"K", "A", "-", "1", "0", "0", "0", "1", " ", "o", "t", " ", "0", "1", ".", "0", "2", ".", "2", "0", "2", "4", " ", "1", "0", ":", "0", "0", ",", " ", "M", "o", ",", " ", "D", "o", "m", " ", "1">>
\*   "KB-10001, MO,  dom 1"
TextOrderLoud == <<"K", "B", "-", "1", "0", "0", "0", "1", ",", " ", "M", "O", ",", " ", " ", "d", "o", "m", " ", "1">>
\*   "ot 01.02.2024, Mo, Dom 1"
TextAddressOnly == <<"o", "t", " ", "0", "1", ".", "0", "2", ".", "2", "0", "2", "4", ",", " ", "M", "o", ",", " ", "D", "o", "m", " ", "1">>
\*   "Dom bez nomera"
TextNeither == <<"D", "o", "m", " ", "b", "e", "z", " ", "n", "o", "m", "e", "r", "a">>
\*   "Petrov Ivan (brigada)"
TextWorker == <<"P", "e", "t", "r", "o", "v", " ", "I", "v", "a", "n", " ", "(", "b", "r", "i", "g", "a", "d", "a", ")">>
\*   "Itogo"
TextTotal == <<"I", "t", "o", "g", "o">>

OrderCells ==
    {NaN, Str(TextOrder), Str(TextOrderLoud), Str(TextAddressOnly),
     Str(TextNeither), Str(TextWorker), Str(TextTotal)}

\* cells of the amount columns: empty, zero, negative, the threshold, above
\* it, a text with a group space and a decimal comma, a text that is no number
\*   "5 000,5"   "n/a"
AmountCells ==
    {NaN, Num(0), Num(0 - 100), Num(5000), Num(6000),
     Str(<<"5", " ", "0", "0", "0", ",", "5">>),
     Str(<<"n", "/", "a">>)}

SheetRows == {<<t, a, b, c>> : t \in OrderCells, a \in AmountCells,
                                b \in AmountCells, c \in AmountCells}

NoRow == <<>>

\* the row is skipped: `continue` at line 812 or at line 824
skip_row ==
    /\ row_in # NoRow /\ row_out = NoRow
    /\ is_skipped(row_in.columns, row_in.row)
    /\ row_out' = <<[kept |-> FALSE, fields |-> <<>>]>>
    /\ UNCHANGED <<files, orders, logs, next_id, req, report, row_in, scan>>

\* the row is turned into the fields of an OrderRow (lines 826-921)
build_row ==
    /\ row_in # NoRow /\ row_out = NoRow
    /\ ~is_skipped(row_in.columns, row_in.row)
    /\ row_out' = <<[kept |-> TRUE,
                     fields |-> <<interpret_row(row_in.columns, row_in.row)>>]>>
    /\ UNCHANGED <<files, orders, logs, next_id, req, report, row_in, scan>>

InitRow ==
    /\ files = {} /\ orders = {} /\ logs = {} /\ next_id = 1
    /\ req = <<>> /\ report = NoReport
    /\ \E h \in Headers, r \in SheetRows : row_in = [columns |-> h, row |-> r]
    /\ row_out = NoRow
    /\ scan = <<>>

NextRow == skip_row \/ build_row

SpecRow == InitRow /\ [][NextRow]_vars

(***************************************************************************)
(* Properties of the work-type resolution                                  *)
(***************************************************************************)

\* the amount a cell states: a number, or a text that reads as a number once
\* its spaces are dropped and its comma is taken as the decimal point;
\* absent (NoFloat) when the column is not in the file, the cell is empty or
\* the text is no number
StatedAmount(col) ==
    IF col = 0 THEN NoFloat
    ELSE LET cell == row_in.row[col]
         IN  IF cell.kind = "nan" THEN NoFloat
             ELSE IF cell.kind = "num" THEN Float(cell.num, 0)
             ELSE to_float(clean_amount(cell.text))

DiagnosticAmount == StatedAmount(find_diagnostic_col(row_in.columns))
InspectionAmount == StatedAmount(find_inspection_col(row_in.columns))
PayoutAmount == StatedAmount(find_payout_col(row_in.columns))

PresentAbove(x, k) == x.ok /\ GreaterThan(x, k)

RowBuilt == row_out # NoRow /\ row_out[1].kept
Built == row_out[1].fields[1]

\* C8: the work type of every row the loop body keeps is the first that
\* applies of: diagnostic when the diagnostic amount is present and > 0,
\* inspection when the inspection amount is present and > 0, installation
\* when the payout is present and > 5000, other; so it is one of those four
\* tags, and a positive diagnostic amount wins over a payout above 5000.
C8_WorkTypeDecisionList ==
    RowBuilt =>
        /\ Built.work_type =
              (IF PresentAbove(DiagnosticAmount, 0) THEN "diagnostic"
               ELSE IF PresentAbove(InspectionAmount, 0) THEN "inspection"
               ELSE IF PresentAbove(PayoutAmount, 5000) THEN "installation"
               ELSE "other")
        /\ Built.work_type \in WorkTypes

\* a kept row with a positive diagnostic amount and a payout above 5000
C8_Witness ==
    /\ RowBuilt
    /\ PresentAbove(DiagnosticAmount, 0)
    /\ PresentAbove(PayoutAmount, 5000)
    /\ Built.work_type = "diagnostic"

(***************************************************************************)
(* The service: uploads, deletion, reset and analysis requests on the      *)
(* database                                                                *)
(***************************************************************************)

MaxUploads == 2

\* an upload whose bytes pd.read_excel cannot read (line 644 raises)
Unreadable == [readable |-> FALSE, columns |-> <<>>, rows |-> <<>>]

\* an order row with a payout of 6000, after it a worker header
SheetOrders ==
    [readable |-> TRUE, columns |-> HeaderFull,
     rows |-> <<(<<Str(TextOrder), NaN, NaN, Num(6000)>>),
                (<<Str(TextWorker), NaN, NaN, NaN>>)>>]
\* no payout column; one row with neither an order id nor an address
SheetRevenue ==
    [readable |-> TRUE, columns |-> HeaderRevenue,
     rows |-> <<(<<Str(TextNeither), Num(6000), NaN, Num(6000)>>)>>]
\* a header and no rows
SheetBare == [readable |-> TRUE, columns |-> HeaderBare, rows |-> <<>>]

Sheets == {SheetOrders, SheetRevenue, SheetBare}

\* the ids the files table can hand out: one file of an earlier run, and one
\* per upload
AllFileIds == 1..(1 + MaxUploads)

PayoutWarning(file_id) == [file_id |-> file_id, log_type |-> "warning"]

\* The database the service starts on: on_startup (lines 82-90) keeps the
\* tables unless RESET_DB is set. Either no data, or file 1 of an earlier
\* run with its rows, with or without a parse log.
StoreEmpty == [files |-> {}, orders |-> {}, logs |-> {}, next_id |-> 1]
StoreOrders ==
    [files |-> {1},
     orders |-> {OrderRow(1, 1, OrderKA, AddrDom, "installation"),
                 OrderRow(2, 1, None, None, "other")},
     logs |-> {},
     next_id |-> 2]
StoreLogged ==
    [files |-> {1},
     orders |-> {OrderRow(1, 1, OrderKA, AddrDom, "installation")},
     logs |-> {PayoutWarning(1)},
     next_id |-> 2]
\* file 1 with two rows at one address, one of them without an order id
StoreAddress ==
    [files |-> {1},
     orders |-> {OrderRow(1, 1, OrderKA, AddrDom, "installation"),
                 OrderRow(2, 1, None, AddrDomLoud, "diagnostic")},
     logs |-> {},
     next_id |-> 2]
StartStores == {StoreEmpty, StoreOrders, StoreLogged, StoreAddress}

\* A request record of req: the sheet sent, where the handler is (pc), the id
\* of the File it committed (0: none), the status of its response (0: none
\* yet), the fields of a 200 response (lines 931-945; empty otherwise) and
\* what its session dropped uncommitted when it was closed.


\* a faulty variant: the File row is committed before the sheet is read
upload_unreadable_file_first ==
    /\ Len(req) < MaxUploads
    /\ files' = files \cup {next_id}
    /\ next_id' = next_id + 1
    /\ req' = Append(req, [sheet |-> Unreadable, pc |-> "ended",
                           file_id |-> next_id, status |-> 400,
                           body |-> <<>>, dropped |-> {}])
    /\ UNCHANGED <<orders, logs, report, row_in, row_out, scan>>

\* POST /upload, lines 640-657: the bytes cannot be read; 400, nothing written
upload_unreadable ==
    /\ Len(req) < MaxUploads
    /\ req' = Append(req, [sheet |-> Unreadable, pc |-> "ended", file_id |-> 0,
                           status |-> 400, body |-> <<>>, dropped |-> {}])
    /\ UNCHANGED <<files, orders, logs, next_id, report, row_in, row_out, scan>>


\* a faulty variant: a sheet that was uploaded before is filed under the
\* File of the earlier upload
upload_create_file_by_content(sheet) ==
    /\ Len(req) < MaxUploads
    /\ LET earlier == {req[i].file_id : i \in {k \in 1..Len(req) :
                                                  req[k].sheet = sheet}}
           file_id == IF earlier = {} THEN next_id
                      ELSE CHOOSE f \in earlier : TRUE
       IN  /\ files' = files \cup {file_id}
           /\ req' = Append(req, [sheet |-> sheet, pc |-> "created",
                                  file_id |-> file_id, status |-> 0,
                                  body |-> <<>>, dropped |-> {}])
    /\ next_id' = next_id + 1
    /\ UNCHANGED <<orders, logs, report, row_in, row_out, scan>>

\* POST /upload, lines 640-663: the sheet is read, the File row is added and
\* committed
upload_create_file(sheet) ==
    /\ Len(req) < MaxUploads
    /\ files' = files \cup {next_id}
    /\ next_id' = next_id + 1
    /\ req' = Append(req, [sheet |-> sheet, pc |-> "created",
                           file_id |-> next_id, status |-> 0, body |-> <<>>,
                           dropped |-> {}])
    /\ UNCHANGED <<orders, logs, report, row_in, row_out, scan>>

\* POST /upload, lines 665-723: the payout column is looked for and, when it
\* is not found, a warning is added to the session (lines 717-721); then line
\* 723 reads diagnostic_col, a local that is assigned only at line 736:
\* UnboundLocalError. The handler ends with status 500, get_db closes the
\* session (lines 92-97), and what the session held uncommitted is dropped.
upload_locate_columns(i) ==
    /\ req[i].pc = "created"
    /\ LET payout_col == find_payout_col(req[i].sheet.columns)
           pending == IF payout_col = 0
                      THEN {PayoutWarning(req[i].file_id)}
                      ELSE {}
       IN  req' = [req EXCEPT ![i] = [@ EXCEPT !.pc = "ended",
                                               !.status = 500,
                                               !.dropped = pending]]
    /\ UNCHANGED <<files, orders, logs, next_id, report, row_in, row_out, scan>>

\* GET /api/files/{file_id}/rows (lines 518-553) with no filter, page 1 and
\* the default limit of 50: the rows of the file, in the order the query
\* returns them
api_get_rows(file_id) ==
    /\ \E rows \in Orderings({r \in orders : r.file_id = file_id}) :
         report' = <<[kind |-> "rows", total |-> Len(rows),
                      rows |-> short_rows(Take(rows, SampleCap))]>>
    /\ UNCHANGED <<files, orders, logs, next_id, req, row_in, row_out, scan>>

\* the texts searched for:  "ka-1"  "DOM"  "zzz"
SearchQueries == {<<"k", "a", "-", "1">>, <<"D", "O", "M">>, <<"z", "z", "z">>}

\* column ILIKE '%q%'
ilike(column, q) == column # None /\ Contains(lower(column), lower(q))

\* GET /api/search (lines 393-453): the rows whose order number or address
\* holds the query, whatever the case of the letters, over all files. (The
\* columns worker_name, raw_text, comment and payout, which the search also
\* looks at, are not kept by this model's rows.)
api_search(query) ==
    /\ LET q == strip(query)
       IN  \E results \in Orderings({r \in orders :
                              ilike(r.order_number, q) \/ ilike(r.address, q)}) :
             report' = <<[kind |-> "search", total |-> Len(results),
                          rows |-> short_rows(results)]>>
    /\ UNCHANGED <<files, orders, logs, next_id, req, row_in, row_out, scan>>

\* a faulty variant: every row is deleted, not only the rows of the file
api_delete_file_unfiltered(file_id) ==
    /\ orders' = {}
    /\ files' = files \ {file_id}
    /\ UNCHANGED <<logs, next_id, req, report, row_in, row_out, scan>>

\* a faulty variant: the File is deleted, its rows are left
api_delete_file_keep_rows(file_id) ==
    /\ files' = files \ {file_id}
    /\ UNCHANGED <<orders, logs, next_id, req, report, row_in, row_out, scan>>

\* DELETE /api/files/{file_id} (lines 555-561). The rows of file_parse_logs
\* are not deleted, and they reference files.id (line 76): a database that
\* enforces the foreign key rejects the deletion of the File and the handler
\* ends with nothing deleted; one that does not enforce it deletes the File
\* and keeps the log.
api_delete_file(file_id) ==
    /\ \/ /\ orders' = {r \in orders : r.file_id # file_id}
          /\ files' = files \ {file_id}
       \/ /\ \E l \in logs : l.file_id = file_id /\ file_id \in files
          /\ UNCHANGED <<files, orders>>
    /\ UNCHANGED <<logs, next_id, req, report, row_in, row_out, scan>>

\* POST /admin/reset/soft (lines 1008-1014), with the same two outcomes
admin_reset_soft ==
    /\ \/ /\ orders' = {}
          /\ files' = {}
       \/ /\ \E l \in logs : l.file_id \in files
          /\ UNCHANGED <<files, orders>>
    /\ UNCHANGED <<logs, next_id, req, report, row_in, row_out, scan>>

Init ==
    /\ \E store \in StartStores :
         /\ files = store.files
         /\ orders = store.orders
         /\ logs = store.logs
         /\ next_id = store.next_id
    /\ req = <<>>
    /\ report = NoReport
    /\ row_in = NoRow
    /\ row_out = NoRow
    /\ scan = <<>>

Next ==
    \/ upload_unreadable
    \/ \E sheet \in Sheets : upload_create_file(sheet)
    \/ \E i \in 1..Len(req) : upload_locate_columns(i)
    \/ \E f \in AllFileIds : api_delete_file(f)
    \/ admin_reset_soft
    \/ \E f \in AllFileIds : api_recalc_file(f)
    \/ api_dashboard_all
    \/ \E f \in AllFileIds : api_get_rows(f)
    \/ \E q \in SearchQueries : api_search(q)

Spec == Init /\ [][Next]_vars

(***************************************************************************)
(* Properties of the upload                                                *)
(***************************************************************************)

Ended(i) == req[i].pc = "ended"
Readable(i) == req[i].sheet.readable
Succeeded(i) == Ended(i) /\ req[i].status = 200
RecordsOf(file_id) == {r \in orders : r.file_id = file_id}

\* the rows of the sheet of request i that are neither template rows nor
\* worker headers, and what the loop body makes of such a row
DataRows(i) ==
    {k \in 1..Len(req[i].sheet.rows) :
        ~is_skipped(req[i].sheet.columns, req[i].sheet.rows[k])}
FieldsOf(i, k) == interpret_row(req[i].sheet.columns, req[i].sheet.rows[k])

\* C2: every upload of a readable sheet that has ended has ended with the
\* 200 response that carries file_id, total_rows_in_file, saved_rows and
\* problematic_rows, whether or not the payout, diagnostic and inspection
\* columns were found; none has ended by raising.
C2_ReadableUploadCompletes ==
    \A i \in 1..Len(req) :
        (Readable(i) /\ Ended(i)) =>
            /\ req[i].status = 200
            /\ req[i].body[1].file_id = req[i].file_id
            /\ req[i].body[1].saved_rows <= req[i].body[1].total_rows_in_file
            /\ req[i].body[1].problematic_rows <= req[i].body[1].saved_rows

\* C3: a File is in the store only if the upload that made it has processed
\* all rows and committed its records with it, and an upload that failed has
\* left neither its File nor any of its records.
C3_UploadCommitsAsUnit ==
    \A i \in 1..Len(req) :
        /\ (req[i].file_id \in files) =>
               /\ Succeeded(i)
               /\ Cardinality(RecordsOf(req[i].file_id))
                      = Cardinality(DataRows(i))
        /\ (Ended(i) /\ req[i].status # 200) =>
               /\ req[i].file_id \notin files
               /\ RecordsOf(req[i].file_id) = {}

\* the stored rows of other files that row k of upload i duplicates: same
\* trimmed upper-cased order id, same normalized address, same work type
EarlierDuplicates(i, k) ==
    LET x == FieldsOf(i, k)
    IN  {r \in orders :
            /\ r.file_id # req[i].file_id
            /\ r.order_number # None /\ r.address # None
            /\ x.order_number # None /\ x.address # None
            /\ upper(strip(r.order_number)) = upper(strip(x.order_number))
            /\ normalize_text(r.address) = normalize_text(x.address)
            /\ r.work_type = x.work_type}

\* C7: an upload that has ended, of a sheet one of whose rows duplicates a
\* stored record of an earlier file, has returned a hard-duplicate result
\* that counts that duplicate.
C7_UploadAnalysisCoversAllFiles ==
    \A i \in 1..Len(req) :
        (/\ Readable(i) /\ Ended(i)
         /\ \E k \in DataRows(i) : EarlierDuplicates(i, k) # {}) =>
            /\ req[i].status = 200
            /\ req[i].body[1].hard_duplicates_count >= 1

\* C9: every stored record has is_problematic = (order id is null or address
\* is null) and parsed_ok = ~is_problematic, and for every row with neither
\* an order id nor an address of an ended upload whose File is stored there
\* is a stored record of that File with both fields null, is_problematic
\* true and parsed_ok false.
C9_ProblematicRowsPersisted ==
    /\ \A r \in orders :
           /\ r.is_problematic = (r.order_number = None \/ r.address = None)
           /\ r.parsed_ok = ~r.is_problematic
    /\ \A i \in 1..Len(req) :
           (Readable(i) /\ Ended(i) /\ req[i].file_id \in files) =>
               \A k \in DataRows(i) :
                   (/\ FieldsOf(i, k).order_number = None
                    /\ FieldsOf(i, k).address = None) =>
                       \E r \in RecordsOf(req[i].file_id) :
                           /\ r.order_number = None /\ r.address = None
                           /\ r.is_problematic /\ ~r.parsed_ok

\* The part of C9 on the analysis: the problematic count of a report is the
\* number of in-scope records that miss an order id or an address.
ProblematicCountOfAnalyze ==
    report # NoReport =>
        Rep.problematic_count =
            Cardinality({r \in InScope :
                            r.order_number = None \/ r.address = None})

\* C10: for every ended upload whose File is stored, the File owns exactly
\* one record per row that is neither a template row nor a worker header,
\* and the response counts every row in total_rows_in_file, the records in
\* saved_rows and the flagged ones in problematic_rows, with
\* problematic_rows <= saved_rows <= total_rows_in_file.
C10_OneRecordPerDataRow ==
    \A i \in 1..Len(req) :
        (Readable(i) /\ Ended(i) /\ req[i].file_id \in files) =>
            /\ Cardinality(RecordsOf(req[i].file_id))
                   = Cardinality(DataRows(i))
            /\ req[i].status = 200
            /\ req[i].body[1].total_rows_in_file = Len(req[i].sheet.rows)
            /\ req[i].body[1].saved_rows = Cardinality(DataRows(i))
            /\ req[i].body[1].problematic_rows =
                   Cardinality({r \in RecordsOf(req[i].file_id) :
                                   r.is_problematic})
            /\ req[i].body[1].problematic_rows <= req[i].body[1].saved_rows
            /\ req[i].body[1].saved_rows <= req[i].body[1].total_rows_in_file

(***************************************************************************)
(* Properties of the store under deletion and reset                        *)
(***************************************************************************)

\* C11: every stored record refers to a File that is in the store, whatever
\* uploads, file deletions and soft resets came before.
C11_RecordsReferToFiles == \A r \in orders : r.file_id \in files

\* file 1 of the earlier run, which had records, was deleted by a request and
\* its records went with it
C11_Witness ==
    /\ next_id >= 2
    /\ 1 \notin files
    /\ RecordsOf(1) = {}
    /\ \A i \in 1..Len(req) : req[i].file_id # 1

\* C12: a step that answers an analysis, a row listing or a search leaves
\* Files and records as they are; a step of an upload keeps every File and
\* every record that was stored; a record leaves the store only together
\* with its File, and no record is replaced by another of the same id; a
\* step that removes Files either empties the store (soft reset) or removes
\* one File and exactly its records.
C12_StoreFrame ==
    [][/\ (report' # report) => (files' = files /\ orders' = orders)
       /\ (req' # req) => (files \subseteq files' /\ orders \subseteq orders')
       /\ \A r \in orders \ orders' : r.file_id \in files \ files'
       /\ \A r \in orders' \ orders : \A x \in orders : x.id # r.id
       /\ (files' # files /\ files' \subseteq files) =>
              \/ files' = {} /\ orders' = {}
              \/ \E f \in files :
                    /\ files' = files \ {f}
                    /\ orders' = orders \ RecordsOf(f)]_vars

\* the File of an upload was deleted while file 1 of the earlier run is
\* stored with its records
C12_Witness ==
    /\ 1 \in files /\ RecordsOf(1) # {}
    /\ \A i \in 1..Len(req) : req[i].file_id # 1
    /\ \E i \in 1..Len(req) : req[i].file_id # 0 /\ req[i].file_id \notin files
    /\ report # NoReport

(***************************************************************************)
(* Requests served side by side: the analysis as its two queries           *)
(***************************************************************************)

NoScan == <<>>

\* analyze_duplicates_for_file, lines 224-317: the first query reads the rows
\* in scope from the committed table; the three passes work on that list
analyze_read_orders(file_id) ==
    /\ scan = NoScan
    /\ \E all_orders \in Orderings(query_orders(orders, file_id)) :
         scan' = <<[file_id |-> file_id, all_orders |-> all_orders,
                    read_from |-> orders]>>
    /\ UNCHANGED <<files, orders, logs, next_id, req, report, row_in, row_out>>

\* analyze_duplicates_for_file, lines 319-335: the second query reads the
\* problematic rows from the table as it is committed by now, and the bundle
\* is returned
analyze_read_problematic ==
    /\ scan # NoScan
    /\ \E problematic_orders \in
            Orderings(query_problematic(orders, scan[1].file_id)) :
         report' = <<report_bundle(scan[1].all_orders, problematic_orders,
                                   scan[1].file_id)>>
    /\ scan' = NoScan
    /\ UNCHANGED <<files, orders, logs, next_id, req, row_in, row_out>>

\* the service with several workers: the handlers of Spec, an analysis
\* request taking its two queries as two steps
NextConcurrent ==
    \/ upload_unreadable
    \/ \E sheet \in Sheets : upload_create_file(sheet)
    \/ \E i \in 1..Len(req) : upload_locate_columns(i)
    \/ \E f \in AllFileIds : api_delete_file(f)
    \/ admin_reset_soft
    \/ \E f \in AllFileIds \cup {NoFile} : analyze_read_orders(f)
    \/ analyze_read_problematic

SpecConcurrent == Init /\ [][NextConcurrent]_vars

\* the bundles a committed table S yields for the scope file_id
SnapshotBundles(S, file_id) ==
    {report_bundle(all_orders, problematic_orders, file_id) :
        all_orders \in Orderings(query_orders(S, file_id)),
        problematic_orders \in Orderings(query_problematic(S, file_id))}

\* the tables the store can have held between two of its states
Between(first, last) ==
    {S \in SUBSET (first \cup last) : (first \cap last) \subseteq S}

HardShape(b) ==
    <<b.hard_duplicates_count,
      {<<b.hard_duplicates_sample[k].order_number,
         b.hard_duplicates_sample[k].address,
         b.hard_duplicates_sample[k].work_type,
         Len(b.hard_duplicates_sample[k].rows)>> :
          k \in 1..Len(b.hard_duplicates_sample)}>>

C16_UnreadableUploadWritesNothing ==
    [][\A i \in (1..Len(req')) \ (1..Len(req)) :
           ~req'[i].sheet.readable =>
               /\ req'[i].pc = "ended"
               /\ req'[i].status = 400
               /\ req'[i].file_id = NoFile
               /\ req'[i].dropped = {}
               /\ files' = files /\ orders' = orders /\ logs' = logs
               /\ next_id' = next_id]_vars

\* an unreadable sheet has been uploaded to a store that holds a File, its
\* records and a parse log
C16_Witness ==
    /\ \E i \in 1..Len(req) : ~Readable(i) /\ Ended(i)
    /\ files # {} /\ orders # {} /\ logs # {}

(***************************************************************************)
(* extract_order_number on the text of a cell (lines 100-106, 826)         *)
(***************************************************************************)

\* what stands before the middle of a text:  ""  "a"  " "  "#"  "9"  "_"  "Z"
TextBefore ==
    {<<>>,
     <<"a">>,
     <<" ">>,
     <<"#">>,
     <<"9">>,
     <<"_">>,
     <<"Z">>}

\* the middle of a text:  "KA-10001"  "K-10001"  "ABCDE-1234567"  "ABCDEF-12345"  "KA-1000"  "KA-12345678"  "ka-10001"  "KA10001"  ""  "KA-10001 KB-20002"  "xKA-10001 KB-20002"
TextMiddle ==
    {<<"K", "A", "-", "1", "0", "0", "0", "1">>,
     <<"K", "-", "1", "0", "0", "0", "1">>,
     <<"A", "B", "C", "D", "E", "-", "1", "2", "3", "4", "5", "6", "7">>,
     <<"A", "B", "C", "D", "E", "F", "-", "1", "2", "3", "4", "5">>,
     <<"K", "A", "-", "1", "0", "0", "0">>,
     <<"K", "A", "-", "1", "2", "3", "4", "5", "6", "7", "8">>,
     <<"k", "a", "-", "1", "0", "0", "0", "1">>,
     <<"K", "A", "1", "0", "0", "0", "1">>,
     <<>>,
     <<"K", "A", "-", "1", "0", "0", "0", "1", " ", "K", "B", "-", "2", "0", "0", "0", "2">>,
     <<"x", "K", "A", "-", "1", "0", "0", "0", "1", " ", "K", "B", "-", "2", "0", "0", "0", "2">>}

\* what stands after the middle of a text:  ""  "x"  " ot"  "9"  "."  "_"
TextAfter ==
    {<<>>,
     <<"x">>,
     <<" ", "o", "t">>,
     <<"9">>,
     <<".">>,
     <<"_">>}

CellTexts == {a \o m \o z : a \in TextBefore, m \in TextMiddle, z \in TextAfter}

\* order_number = extract_order_number(text_cell) of line 826, for the text
\* of one cell
parse_order_number ==
    /\ row_in # NoRow /\ row_out = NoRow
    /\ row_out' = <<[order_number |-> extract_order_number(row_in.text)]>>
    /\ UNCHANGED <<files, orders, logs, next_id, req, report, row_in, scan>>

InitExtract ==
    /\ files = {} /\ orders = {} /\ logs = {} /\ next_id = 1
    /\ req = <<>> /\ report = NoReport
    /\ \E t \in CellTexts : row_in = [text |-> t]
    /\ row_out = NoRow
    /\ scan = <<>>

NextExtract == parse_order_number

SpecExtract == InitExtract /\ [][NextExtract]_vars

\* t is 2 to 5 upper-case letters, a hyphen and 5 to 7 digits, and no more
IsOrderId(t) ==
    \E h \in 1..Len(t) :
        /\ t[h] = "-"
        /\ h - 1 >= 2 /\ h - 1 <= 5
        /\ \A k \in 1..(h - 1) : IsUpper(t[k])
        /\ Len(t) - h >= 5 /\ Len(t) - h <= 7
        /\ \A k \in (h + 1)..Len(t) : t[k] \in Digits

\* the places <<i, j>> where s holds such a substring, and those of them
\* where it stands as a word of its own: no letter, digit or underscore
\* directly before or after it
OrderIdPlaces(s) ==
    {p \in (1..Len(s)) \X (1..Len(s)) :
        p[1] <= p[2] /\ IsOrderId(SubSeq(s, p[1], p[2]))}
StandsAlone(s, p) ==
    /\ p[1] = 1 \/ ~IsWordChar(s[p[1] - 1])
    /\ p[2] = Len(s) \/ ~IsWordChar(s[p[2] + 1])
OrderIdWords(s) == {p \in OrderIdPlaces(s) : StandsAlone(s, p)}

\* the text the order id was looked for in, and what was found
TextRead == row_in.text
Extracted == row_out[1].order_number

\* C17 (as stated): the result is null exactly when the text holds no such
\* substring, whatever precedes or follows it; otherwise it is such a
\* substring at the leftmost place where one starts; and an order id that is
\* present matches the pattern
C17_ExtractsLeftmostSubstring ==
    (row_in # NoRow /\ row_out # NoRow) =>
        /\ (Extracted = None) <=> (OrderIdPlaces(TextRead) = {})
        /\ Extracted # None =>
               /\ IsOrderId(Extracted)
               /\ \E p \in OrderIdPlaces(TextRead) :
                     /\ Extracted = SubSeq(TextRead, p[1], p[2])
                     /\ \A q \in OrderIdPlaces(TextRead) : p[1] <= q[1]

\* C17 (amended): the result is null exactly when the text holds no such
\* substring that stands as a word of its own; otherwise it is the leftmost
\* of those; and an order id that is present matches the pattern
C17_ExtractsLeftmostWord ==
    (row_in # NoRow /\ row_out # NoRow) =>
        /\ (Extracted = None) <=> (OrderIdWords(TextRead) = {})
        /\ Extracted # None =>
               /\ IsOrderId(Extracted)
               /\ \E p \in OrderIdWords(TextRead) :
                     /\ Extracted = SubSeq(TextRead, p[1], p[2])
                     /\ \A q \in OrderIdWords(TextRead) : p[1] <= q[1]

\* an order id was taken from a text that holds one inside a word further to
\* the left
C17_Witness ==
    /\ row_in # NoRow /\ row_out # NoRow
    /\ Extracted # None
    /\ \E p \in OrderIdPlaces(TextRead) : \E q \in OrderIdWords(TextRead) :
           p[1] < q[1] /\ Extracted = SubSeq(TextRead, q[1], q[2])

(***************************************************************************)
(* Properties of the column location                                       *)
(***************************************************************************)

\* the column a role gets when location is layered: the first column whose
\* label matches; when no label matches, the first of the role's positions
\* that the file has; 0 (unset) when it has none of them
LayeredColumn(columns, matching, positions) ==
    IF matching # {}
    THEN CHOOSE i \in matching : \A j \in matching : i <= j
    ELSE LET there == {k \in 1..Len(positions) : positions[k] <= Len(columns)}
         IN  IF there = {} THEN 0
             ELSE positions[CHOOSE k \in there : \A j \in there : k <= j]

\* C18: for the row that was handled, the payout, diagnostic-amount and
\* inspection-amount columns are the first column whose label matches the
\* role's rule; when no label matches, the first of the role's candidate
\* positions that exists in the file; unset only when none of them exists
C18_LayeredColumnLocation ==
    row_out # NoRow =>
        /\ find_payout_col(row_in.columns)
               = LayeredColumn(row_in.columns, PayoutColumns(row_in.columns),
                               PayoutPositions)
        /\ find_diagnostic_col(row_in.columns)
               = LayeredColumn(row_in.columns,
                               DiagnosticColumns(row_in.columns),
                               DiagnosticPositions)
        /\ find_inspection_col(row_in.columns)
               = LayeredColumn(row_in.columns,
                               InspectionColumns(row_in.columns),
                               InspectionPositions)

(***************************************************************************)
(* Properties of the parse log                                             *)
(***************************************************************************)

\* C19: after any sequence of uploads, deletions of a File and soft resets,
\* every stored parse-log entry refers to a File that is stored: a deletion
\* or a reset leaves no entry of a File it removed
C19_LogsReferToFiles == \A l \in logs : l.file_id \in files

====
